---- MODULE Spec2Model ----
(***************************************************************************)
(* A model of nodestream's filter steps (nodestream/pipeline/filters.py)   *)
(* and of SwitchInterpretation                                             *)
(* (nodestream/interpreting/swtich_interpretation.py).                     *)
(*                                                                         *)
(* Strings are sequences of one-character strings, so that "matches at     *)
(* the start" and "lowercased" are computed and not assumed.               *)
(***************************************************************************)
EXTENDS Integers, Sequences, FiniteSets, TLC

VARIABLES
    chain,      \* the Filter steps of the pipeline, in order
    fed,        \* the items the source has produced so far
    closed,     \* the source is exhausted
    chans,      \* chans[k]: items waiting for step k; chans[Len(chain)+1]: the output
    log,        \* one entry per process_record call
    status,     \* "running", or "failed" once a step has raised
    error,      \* the exception that ended the stream
    heap,       \* the compiled interpretations; heap[1] is the root
    lastCall,   \* the last interpret call on the root and what it gave
    walk,       \* "idle", "walking" or "done": the structural walk
    stack,      \* the nodes the walk has still to visit
    visited,    \* the nodes the walk has visited, in order
    evaluated,  \* the interpret calls made while walking
    defn,       \* the PipelineDefinition at hand, if any
    fileData,   \* what to_file_data last returned, and the verbose it was given
    loaded      \* what from_file_data last returned, and the parent annotations

fvars == <<chain, fed, closed, chans, log, status, error>>

svars == <<heap, lastCall, walk, stack, visited, evaluated>>

dvars == <<defn, fileData, loaded>>

vars == <<chain, fed, closed, chans, log, status, error,
          heap, lastCall, walk, stack, visited, evaluated,
          defn, fileData, loaded>>

----------------------------------------------------------------------------
(* Bounds *)

MaxStream == 3
MaxChain == 2
MaxMatchers == 2

----------------------------------------------------------------------------
(* Values, records and the Flush signal *)

Values == {<<"A">>, <<"a">>, <<"a", "b">>, <<"A", "B">>}

\* what a record holds for a field it does not have
Missing == <<"<missing>">>

\* what normalize_single_value gives when the provider cannot resolve
ResolutionError == <<"<ResolutionError>">>

Fields == {"x", "y"}

Flush == [kind |-> "Flush"]

Record(data) == [kind |-> "record", data |-> data]

Records == {Record(d) : d \in [Fields -> Values \cup {Missing}]}

----------------------------------------------------------------------------
(* Value providers and normalization *)

Static(v) == [provider |-> "static", value |-> v]

Field(f) == [provider |-> "field", name |-> f]

LowerChar(c) == CASE c = "A" -> "a" [] c = "B" -> "b" [] OTHER -> c

Lower(v) == [i \in 1..Len(v) |-> LowerChar(v[i])]

\* normalization is {} ("none") or {do_lowercase_strings: true} ("lower")
Normalizations == {"none", "lower"}

Normalize(v, normalization) == IF normalization = "lower" THEN Lower(v) ELSE v

\* ProviderContext(item, None): the context a filter builds from an item
ProviderContext(item) == item

single_value(provider, context) ==
    IF provider.provider = "static" THEN provider.value
    ELSE IF context.kind # "record" THEN ResolutionError
    ELSE IF context.data[provider.name] = Missing THEN ResolutionError
    ELSE context.data[provider.name]

normalize_single_value(provider, context, normalization) ==
    LET v == single_value(provider, context)
    IN  IF v = ResolutionError THEN ResolutionError ELSE Normalize(v, normalization)

----------------------------------------------------------------------------
(* Results of a call: a returned boolean, or a raised exception.           *)
(* resfail records that a provider failed to resolve during the call.      *)

Return(b) == [exc |-> FALSE, ret |-> b, resfail |-> FALSE]

Raise == [exc |-> TRUE, ret |-> FALSE, resfail |-> TRUE]

\* r, with the resolution failures of an earlier call s kept on record
Join(s, r) == [r EXCEPT !.resfail = s.resfail \/ r.resfail]

Not(r) == IF r.exc THEN r ELSE [r EXCEPT !.ret = ~r.ret]

----------------------------------------------------------------------------
(* ValueMatcher *)

ValueMatcher(value_provider, possibilities, normalization) ==
    [value_provider |-> value_provider,
     possibilities |-> possibilities,
     normalization |-> normalization]

\* AnyPossibility with the possibilities compared as resolved, not normalized
RECURSIVE AnyPossibilityRaw(_, _, _, _)
AnyPossibilityRaw(m, context, actual_value, i) ==
    IF i > Len(m.possibilities) THEN Return(FALSE)
    ELSE LET p == single_value(m.possibilities[i], context)
         IN  IF p = ResolutionError THEN Raise
             ELSE IF p = actual_value THEN Return(TRUE)
             ELSE AnyPossibilityRaw(m, context, actual_value, i + 1)

\* any(possibility.normalize_single_value(...) == actual_value for ...), from
\* possibility i on: stops at the first equal possibility or the first failure
RECURSIVE AnyPossibility(_, _, _, _)
AnyPossibility(m, context, actual_value, i) ==
    IF i > Len(m.possibilities) THEN Return(FALSE)
    ELSE LET p == normalize_single_value(m.possibilities[i], context, m.normalization)
         IN  IF p = ResolutionError THEN Raise
             ELSE IF p = actual_value THEN Return(TRUE)
             ELSE AnyPossibility(m, context, actual_value, i + 1)

\* does_match with a subject that fails to resolve taken as "no match"
does_match_masked(m, context) ==
    LET actual_value ==
            normalize_single_value(m.value_provider, context, m.normalization)
    IN  IF actual_value = ResolutionError
        THEN [exc |-> FALSE, ret |-> FALSE, resfail |-> TRUE]
        ELSE AnyPossibility(m, context, actual_value, 1)

does_match(m, context) ==
    LET actual_value ==
            normalize_single_value(m.value_provider, context, m.normalization)
    IN  IF actual_value = ResolutionError THEN Raise
        ELSE AnyPossibility(m, context, actual_value, 1)

----------------------------------------------------------------------------
(* RegexMatcher.  A regex is a sequence of literal characters, optionally  *)
(* closed by the end anchor "$".                                           *)

RegexMatcher(value_provider, regex, include, normalization) ==
    [value_provider |-> value_provider,
     regex |-> regex,
     include |-> include,
     normalization |-> normalization]

Anchored(regex) == Len(regex) > 0 /\ regex[Len(regex)] = "$"

Literal(regex) == IF Anchored(regex) THEN SubSeq(regex, 1, Len(regex) - 1) ELSE regex

\* re_match as a match of the whole value
re_fullmatch(regex, value) == value = Literal(regex)

\* self.regex.match(value) is not None: a match from the start of value
re_match(regex, value) ==
    /\ Len(Literal(regex)) <= Len(value)
    /\ SubSeq(value, 1, Len(Literal(regex))) = Literal(regex)
    /\ Anchored(regex) => Len(value) = Len(Literal(regex))

should_include(m, context) ==
    LET actual_value ==
            normalize_single_value(m.value_provider, context, m.normalization)
    IN  IF actual_value = ResolutionError THEN Raise
        ELSE LET match == re_match(m.regex, actual_value)
             IN  Return(IF m.include THEN ~match ELSE match)

----------------------------------------------------------------------------
(* The filters *)

ValuesMatchPossibilitiesFilter(value_matchers) ==
    [type |-> "ValuesMatchPossibilitiesFilter", value_matchers |-> value_matchers]

ExcludeWhenValuesMatchPossibilities(value_matchers) ==
    [type |-> "ExcludeWhenValuesMatchPossibilities",
     inner |-> ValuesMatchPossibilitiesFilter(value_matchers)]

ValueMatchesRegexFilter(regex_matcher) ==
    [type |-> "ValueMatchesRegexFilter", regex_matcher |-> regex_matcher]

\* all(matcher.does_match(context) for matcher in value_matchers), from
\* matcher i on: stops at the first matcher that does not match or that fails
RECURSIVE AllMatch(_, _, _)
AllMatch(value_matchers, context, i) ==
    IF i > Len(value_matchers) THEN Return(TRUE)
    ELSE LET r == does_match(value_matchers[i], context)
         IN  IF r.exc \/ ~r.ret THEN r
             ELSE Join(r, AllMatch(value_matchers, context, i + 1))

\* ValuesMatch_filter_record without its negation
ValuesMatch_filter_record_all(f, item) ==
    AllMatch(f.value_matchers, ProviderContext(item), 1)

ValuesMatch_filter_record(f, item) ==
    Not(AllMatch(f.value_matchers, ProviderContext(item), 1))

\* Exclude_filter_record without its negation
Exclude_filter_record_same(f, record) == ValuesMatch_filter_record(f.inner, record)

Exclude_filter_record(f, record) == Not(ValuesMatch_filter_record(f.inner, record))

Regex_filter_record(f, item) == should_include(f.regex_matcher, ProviderContext(item))

\* self.filter_record(record), by the class of the filter
filter_record(f, record) ==
    CASE f.type = "ValuesMatchPossibilitiesFilter" -> ValuesMatch_filter_record(f, record)
      [] f.type = "ExcludeWhenValuesMatchPossibilities" -> Exclude_filter_record(f, record)
      [] f.type = "ValueMatchesRegexFilter" -> Regex_filter_record(f, record)

\* process_record without the test for Flush
process_record_no_flush_test(f, record) ==
    LET r == filter_record(f, record)
    IN  [yielded |-> IF ~r.exc /\ ~r.ret THEN <<record>> ELSE <<>>,
         exc |-> r.exc,
         asked |-> <<record>>,
         resfail |-> r.resfail]

\* process_record yielding a surviving record twice
process_record_twice(f, record) ==
    IF record = Flush
    THEN [yielded |-> <<record>>, exc |-> FALSE, asked |-> <<>>, resfail |-> FALSE]
    ELSE LET r == filter_record(f, record)
         IN  [yielded |-> IF ~r.exc /\ ~r.ret THEN <<record, record>> ELSE <<>>,
              exc |-> r.exc,
              asked |-> <<record>>,
              resfail |-> r.resfail]

\* Filter.process_record: what it yields, whether it raised, and the
\* arguments it called filter_record with
process_record(f, record) ==
    IF record = Flush
    THEN [yielded |-> <<record>>, exc |-> FALSE, asked |-> <<>>, resfail |-> FALSE]
    ELSE LET r == filter_record(f, record)
         IN  [yielded |-> IF ~r.exc /\ ~r.ret THEN <<record>> ELSE <<>>,
              exc |-> r.exc,
              asked |-> <<record>>,
              resfail |-> r.resfail]

----------------------------------------------------------------------------
(* The inputs *)

SeqsUpTo(S, n) == UNION {[1..k -> S] : k \in 0..n}

PossibilityLists ==
    {<<>>,
     <<Static(<<"a">>)>>,
     <<Static(<<"A">>), Field("y")>>,
     <<Field("y"), Static(<<"a", "b">>)>>}

Matchers ==
    {ValueMatcher(Field("x"), ps, n) : ps \in PossibilityLists, n \in Normalizations}

Regexes == {<<"a">>, <<"A">>, <<"a", "b">>, <<"a", "$">>}

RegexMatchers ==
    {RegexMatcher(Field("x"), re, inc, n) :
        re \in Regexes, inc \in BOOLEAN, n \in Normalizations}

MatcherLists == SeqsUpTo(Matchers, MaxMatchers)

Filters ==
    {ValuesMatchPossibilitiesFilter(ms) : ms \in MatcherLists}
    \cup {ExcludeWhenValuesMatchPossibilities(ms) : ms \in MatcherLists}
    \cup {ValueMatchesRegexFilter(rm) : rm \in RegexMatchers}

Items == Records \cup {Flush}

\* the filters and items of the pipelines with several steps
ChainFilters ==
    {ValuesMatchPossibilitiesFilter(
        <<ValueMatcher(Field("x"), <<Static(<<"a">>)>>, "lower")>>),
     ExcludeWhenValuesMatchPossibilities(
        <<ValueMatcher(Field("x"), <<Static(<<"A">>), Field("y")>>, "none")>>),
     ValueMatchesRegexFilter(RegexMatcher(Field("x"), <<"a">>, TRUE, "none")),
     ValueMatchesRegexFilter(RegexMatcher(Field("x"), <<"a", "b">>, FALSE, "lower"))}

ChainItems ==
    {Flush,
     Record([x |-> <<"a">>, y |-> Missing]),
     Record([x |-> <<"A">>, y |-> <<"a">>]),
     Record([x |-> Missing, y |-> <<"a">>])}

----------------------------------------------------------------------------
(* The pipeline: a source, the chain of Filter steps, and the channels     *)
(* between them.  Each step takes the next item waiting for it, runs       *)
(* process_record on it and hands what that yields to the next step.       *)

Tagged(i, v) == [idx |-> i, val |-> v]

NoError == [stage |-> 0, idx |-> 0]

Output == chans[Len(chain) + 1]

Outcome(r) == IF r.exc THEN "raise" ELSE IF r.yielded = <<>> THEN "drop" ELSE "emit"

\* no pipeline definition is at hand
NoDefinition ==
    /\ defn = <<>>
    /\ fileData = <<>>
    /\ loaded = <<>>

\* no interpretation is part of the filter pipelines
NoInterpretations ==
    /\ heap = <<>>
    /\ lastCall = <<>>
    /\ walk = "idle"
    /\ stack = <<>>
    /\ visited = <<>>
    /\ evaluated = <<>>

Init ==
    /\ NoInterpretations
    /\ NoDefinition
    /\ chain \in SeqsUpTo(ChainFilters, MaxChain)
    /\ fed = <<>>
    /\ closed = FALSE
    /\ chans = [k \in 1..(Len(chain) + 1) |-> <<>>]
    /\ log = {}
    /\ status = "running"
    /\ error = NoError

\* the source produces its next item
Feed(item) ==
    /\ status = "running"
    /\ ~closed
    /\ Len(fed) < MaxStream
    /\ fed' = Append(fed, item)
    /\ chans' = [chans EXCEPT ![1] = Append(@, Tagged(Len(fed) + 1, item))]
    /\ UNCHANGED <<chain, closed, log, status, error>>
    /\ UNCHANGED svars
    /\ UNCHANGED dvars

\* the source is exhausted
Close ==
    /\ status = "running"
    /\ ~closed
    /\ closed' = TRUE
    /\ UNCHANGED <<chain, fed, chans, log, status, error>>
    /\ UNCHANGED svars
    /\ UNCHANGED dvars

\* step k handles the next item waiting for it
Step(k) ==
    /\ status = "running"
    /\ chans[k] # <<>>
    /\ LET t == Head(chans[k])
           r == process_record(chain[k], t.val)
       IN  /\ log' = log \cup {[stage |-> k, idx |-> t.idx, item |-> t.val,
                                asked |-> r.asked, outcome |-> Outcome(r),
                                resfail |-> r.resfail]}
           /\ IF r.exc
              THEN /\ status' = "failed"
                   /\ error' = [stage |-> k, idx |-> t.idx]
                   /\ chans' = [chans EXCEPT ![k] = Tail(@)]
              ELSE /\ chans' = [chans EXCEPT
                                  ![k] = Tail(@),
                                  ![k + 1] = @ \o [j \in 1..Len(r.yielded) |->
                                                      Tagged(t.idx, r.yielded[j])]]
                   /\ UNCHANGED <<status, error>>
    /\ UNCHANGED <<chain, fed, closed>>
    /\ UNCHANGED svars
    /\ UNCHANGED dvars

Next ==
    \/ \E item \in ChainItems : Feed(item)
    \/ Close
    \/ \E k \in 1..Len(chain) : Step(k)

Spec == Init /\ [][Next]_vars

\* One filter and one item, drawn from all the filters and all the items
InitFilter ==
    /\ NoInterpretations
    /\ NoDefinition
    /\ chain \in {<<f>> : f \in Filters}
    /\ \E item \in Items :
          /\ fed = <<item>>
          /\ chans = <<(<<Tagged(1, item)>>), <<>> >>
    /\ closed = TRUE
    /\ log = {}
    /\ status = "running"
    /\ error = NoError

NextFilter == \E k \in 1..Len(chain) : Step(k)

SpecFilter == InitFilter /\ [][NextFilter]_vars

----------------------------------------------------------------------------
(* SwitchInterpretation.  A configuration is compiled into interpretation  *)
(* objects on a heap; an object's identity is its index.                   *)

None == 0

Root == 1

\* default=None and default={}: both are falsy in __init__
NoneCfg == [type |-> "<None>"]

EmptyCfg == [type |-> "<empty>"]

Truthy(cfg) == cfg \notin {NoneCfg, EmptyCfg}

\* the configuration of an interpretation that has no subordinates
LeafCfg(type) == [type |-> type]

SwitchCfg(switch_on, cases, default, normalization) ==
    [type |-> "switch", switch_on |-> switch_on, cases |-> cases,
     default |-> default, normalization |-> normalization]

\* the order of the keys in a cases mapping
KeyOrder == << <<"A">>, <<"a">>, <<"a", "b">> >>

CaseKeys == {KeyOrder[i] : i \in 1..Len(KeyOrder)}

RECURSIVE from_file_arguments(_, _)

\* CompileCases with one child compiled once and shared by all the cases
RECURSIVE CompileCasesShared(_, _, _, _)
CompileCasesShared(cases, i, h, interpretations) ==
    IF i > Len(KeyOrder) THEN [heap |-> h, interpretations |-> interpretations]
    ELSE IF KeyOrder[i] \notin DOMAIN cases
    THEN CompileCasesShared(cases, i + 1, h, interpretations)
    ELSE IF DOMAIN interpretations # {}
    THEN CompileCasesShared(cases, i + 1, h,
            interpretations @@
                (KeyOrder[i] :> interpretations[CHOOSE k \in DOMAIN interpretations : TRUE]))
    ELSE LET c == from_file_arguments(cases[KeyOrder[i]], h)
         IN  CompileCasesShared(cases, i + 1, c.heap,
                                interpretations @@ (KeyOrder[i] :> c.id))

\* {field_value: Interpretation.from_file_arguments(**interpretation)
\*  for field_value, interpretation in cases.items()}, from key i on
RECURSIVE CompileCases(_, _, _, _)
CompileCases(cases, i, h, interpretations) ==
    IF i > Len(KeyOrder) THEN [heap |-> h, interpretations |-> interpretations]
    ELSE IF KeyOrder[i] \notin DOMAIN cases
    THEN CompileCases(cases, i + 1, h, interpretations)
    ELSE LET c == from_file_arguments(cases[KeyOrder[i]], h)
         IN  CompileCases(cases, i + 1, c.heap, interpretations @@ (KeyOrder[i] :> c.id))

\* SwitchInterpretation.__init__: the new object, its children compiled
SwitchInterpretation_init(cfg, h) ==
    LET id == Len(h) + 1
        cs == CompileCases(cfg.cases, 1, Append(h, [kind |-> "unbuilt"]), <<>>)
        d  == IF Truthy(cfg.default)
              THEN from_file_arguments(cfg.default, cs.heap)
              ELSE [heap |-> cs.heap, id |-> None]
    IN  [heap |-> [d.heap EXCEPT ![id] =
                      [kind |-> "switch",
                       cfg |-> cfg,
                       switch_on |-> cfg.switch_on,
                       interpretations |-> cs.interpretations,
                       default |-> d.id,
                       normalization |-> cfg.normalization]],
         id |-> id]

\* Interpretation.from_file_arguments(**cfg): a new object of the class cfg names
from_file_arguments(cfg, h) ==
    IF cfg.type = "switch" THEN SwitchInterpretation_init(cfg, h)
    ELSE [heap |-> Append(h, [kind |-> "leaf", cfg |-> cfg]), id |-> Len(h) + 1]

\* self.interpretations.values(), in the order of the keys
InterpretationValues(interpretations) ==
    LET ks == SelectSeq(KeyOrder, LAMBDA k : k \in DOMAIN interpretations)
    IN  [i \in 1..Len(ks) |-> interpretations[ks[i]]]

\* what all_subordinate_components yields, and the interpret calls it makes
all_subordinate_components(id) ==
    [yielded |-> InterpretationValues(heap[id].interpretations)
                 \o (IF heap[id].default # None THEN <<heap[id].default>> ELSE <<>>),
     calls |-> <<>>]

\* the result of an interpret call: the calls it made, and what it returned
\* or the exception it raised with the value the exception carries
Returned(output) == [calls |-> <<>>, exc |-> "none", value |-> <<>>, ret |-> output]

NoOutput == [by |-> None]

Raised(exc, value) == [calls |-> <<>>, exc |-> exc, value |-> value, ret |-> NoOutput]

Call(caller, callee, context) ==
    [caller |-> caller, callee |-> callee, context |-> context]

RECURSIVE interpret(_, _)

\* return <callee>.interpret(context)
Delegate(caller, callee, context) ==
    LET r == interpret(callee, context)
    IN  [r EXCEPT !.calls = <<Call(caller, callee, context)>> \o @]

\* SwitchInterpretation.interpret looking up the value as resolved
Switch_interpret_raw(id, context) ==
    LET self == heap[id]
        value_to_look_for == single_value(self.switch_on, context)
    IN  IF value_to_look_for = ResolutionError
        THEN Raised("ResolutionError", value_to_look_for)
        ELSE IF value_to_look_for \notin DOMAIN self.interpretations
        THEN IF self.default # None
             THEN Delegate(id, self.default, context)
             ELSE Raised("UnhandledBranchError", value_to_look_for)
        ELSE Delegate(id, self.interpretations[value_to_look_for], context)

\* SwitchInterpretation.interpret returning nothing for an unhandled branch
Switch_interpret_silent(id, context) ==
    LET self == heap[id]
        value_to_look_for ==
            normalize_single_value(self.switch_on, context, self.normalization)
    IN  IF value_to_look_for = ResolutionError
        THEN Raised("ResolutionError", value_to_look_for)
        ELSE IF value_to_look_for \notin DOMAIN self.interpretations
        THEN IF self.default # None
             THEN Delegate(id, self.default, context)
             ELSE Returned(NoOutput)
        ELSE Delegate(id, self.interpretations[value_to_look_for], context)

Switch_interpret(id, context) ==
    LET self == heap[id]
        value_to_look_for ==
            normalize_single_value(self.switch_on, context, self.normalization)
    IN  IF value_to_look_for = ResolutionError
        THEN Raised("ResolutionError", value_to_look_for)
        ELSE IF value_to_look_for \notin DOMAIN self.interpretations
        THEN IF self.default # None
             THEN Delegate(id, self.default, context)
             ELSE Raised("UnhandledBranchError", value_to_look_for)
        ELSE Delegate(id, self.interpretations[value_to_look_for], context)

\* interpret of the object's class; an interpretation without subordinates
\* returns its own contribution for the context
interpret(id, context) ==
    IF heap[id].kind = "switch" THEN Switch_interpret(id, context)
    ELSE Returned([by |-> id, context |-> context])

\* the subordinate components of any interpretation
SubordinateComponents(id) ==
    IF heap[id].kind = "switch" THEN all_subordinate_components(id)
    ELSE [yielded |-> <<>>, calls |-> <<>>]

ChildCfgs ==
    {LeafCfg("properties"),
     LeafCfg("source_node"),
     SwitchCfg(Field("x"), (<<"A">> :> LeafCfg("properties")), NoneCfg, "none"),
     SwitchCfg(Field("x"), <<>>, LeafCfg("source_node"), "lower")}

RootCfgs ==
    {SwitchCfg(Field("x"), cases, d, n) :
        cases \in UNION {[D -> ChildCfgs] : D \in SUBSET CaseKeys},
        d \in {NoneCfg, EmptyCfg} \cup ChildCfgs,
        n \in Normalizations}

Contexts == {Record([x |-> v, y |-> Missing]) : v \in Values \cup {Missing}}

\* no filter pipeline is part of the interpretation tree
NoPipeline ==
    /\ chain = <<>>
    /\ fed = <<>>
    /\ closed = FALSE
    /\ chans = << <<>> >>
    /\ log = {}
    /\ status = "running"
    /\ error = NoError

InitSwitch ==
    /\ NoPipeline
    /\ NoDefinition
    /\ \E cfg \in RootCfgs : heap = from_file_arguments(cfg, <<>>).heap
    /\ lastCall = <<>>
    /\ walk = "idle"
    /\ stack = <<>>
    /\ visited = <<>>
    /\ evaluated = <<>>

\* root.interpret(context)
Interpret(context) ==
    /\ lastCall' = <<[context |-> context, result |-> interpret(Root, context)]>>
    /\ UNCHANGED <<heap, walk, stack, visited, evaluated>>
    /\ UNCHANGED fvars
    /\ UNCHANGED dvars

\* the structural walk starts at the root
WalkStart ==
    /\ walk = "idle"
    /\ walk' = "walking"
    /\ stack' = <<Root>>
    /\ UNCHANGED <<heap, lastCall, visited, evaluated>>
    /\ UNCHANGED fvars
    /\ UNCHANGED dvars

\* the walk visits the next node and recurses into its subordinate components
WalkStep ==
    /\ walk = "walking"
    /\ stack # <<>>
    /\ LET sub == SubordinateComponents(Head(stack))
       IN  /\ visited' = Append(visited, Head(stack))
           /\ stack' = sub.yielded \o Tail(stack)
           /\ evaluated' = evaluated \o sub.calls
           /\ walk' = IF stack' = <<>> THEN "done" ELSE "walking"
    /\ UNCHANGED <<heap, lastCall>>
    /\ UNCHANGED fvars
    /\ UNCHANGED dvars

NextSwitch ==
    \/ \E context \in Contexts : Interpret(context)
    \/ WalkStart
    \/ WalkStep

SpecSwitch == InitSwitch /\ [][NextSwitch]_vars

----------------------------------------------------------------------------
(* Properties of the filters *)

IsFlushAt(i) == fed[i] = Flush

\* the tagged items anywhere in the channels that came from input i
Copies(i) ==
    {<<k, j>> \in (1..Len(chans)) \X (1..MaxStream + 1) :
        j <= Len(chans[k]) /\ chans[k][j].idx = i}

Drained == \A k \in 1..Len(chain) : chans[k] = <<>>

\* C3: every Flush that entered the chain is in the chain exactly once and
\* unchanged, it is in the output once the steps have handled what they were
\* given, and no filter_record was called with Flush.
C3_FlushPropagation ==
    /\ \A i \in 1..Len(fed) :
          IsFlushAt(i) =>
             /\ Cardinality(Copies(i)) = 1
             /\ \A c \in Copies(i) : chans[c[1]][c[2]].val = Flush
             /\ Drained => \E j \in 1..Len(Output) : Output[j] = Tagged(i, Flush)
    /\ \A e \in log : \A j \in 1..Len(e.asked) : e.asked[j] # Flush

C3_Witness ==
    /\ Len(chain) = 2
    /\ Len(fed) = 3
    /\ fed[1] # Flush /\ fed[2] = Flush /\ fed[3] # Flush
    /\ Drained
    /\ status = "running"
    /\ Output = <<Tagged(2, Flush)>>

\* every matcher of the list matches the record
EveryMatcherMatches(value_matchers, record) ==
    \A i \in 1..Len(value_matchers) :
        does_match(value_matchers[i], ProviderContext(record)) = Return(TRUE)

Handled == log # {}

\* C4: a ValuesMatchPossibilitiesFilter emits a data record iff every one of
\* its matchers matches the record, and emits nothing otherwise.
C4_ValuesMatchEmitsIffAllMatch ==
    (Handled /\ chain[1].type = "ValuesMatchPossibilitiesFilter" /\ fed[1] # Flush) =>
        Output = IF EveryMatcherMatches(chain[1].value_matchers, fed[1])
                 THEN <<Tagged(1, fed[1])>>
                 ELSE <<>>

C4_Witness ==
    /\ Handled
    /\ chain[1].type = "ValuesMatchPossibilitiesFilter"
    /\ Len(chain[1].value_matchers) = 2
    /\ chain[1].value_matchers[1] # chain[1].value_matchers[2]
    /\ fed[1] # Flush
    /\ Output = <<Tagged(1, fed[1])>>

\* the filter of the other class built from the same matchers
Counterpart(f) ==
    IF f.type = "ValuesMatchPossibilitiesFilter"
    THEN [type |-> "ExcludeWhenValuesMatchPossibilities", inner |-> f]
    ELSE f.inner

IsPossibilitiesFilter(f) ==
    f.type \in {"ValuesMatchPossibilitiesFilter", "ExcludeWhenValuesMatchPossibilities"}

Emits(f, record) == process_record(f, record).yielded = <<record>>

\* C5 as claimed: on every data record, exactly one of the two filters built
\* from the same matchers emits the record.
C5_ExactlyOneEmits ==
    (Handled /\ IsPossibilitiesFilter(chain[1]) /\ fed[1] # Flush) =>
        (Output = <<Tagged(1, fed[1])>>) # Emits(Counterpart(chain[1]), fed[1])

\* C5 as amended: exactly one of the two filters emits the record when the
\* matchers are evaluated without a resolution failure; when a provider fails,
\* both filters raise and neither emits.
C5_OppositeUnlessResolutionFails ==
    (Handled /\ IsPossibilitiesFilter(chain[1]) /\ fed[1] # Flush) =>
        LET other == process_record(Counterpart(chain[1]), fed[1])
        IN  IF status = "failed"
            THEN Output = <<>> /\ other.exc /\ other.yielded = <<>>
            ELSE /\ ~other.exc
                 /\ (Output = <<Tagged(1, fed[1])>>) # (other.yielded = <<fed[1]>>)
                 /\ (Output = <<>>) # (other.yielded = <<>>)

C5_Witness ==
    /\ Handled
    /\ chain[1].type = "ExcludeWhenValuesMatchPossibilities"
    /\ Len(chain[1].inner.value_matchers) = 2
    /\ fed[1] # Flush
    /\ status = "running"
    /\ Output = <<>>
    /\ EveryMatcherMatches(chain[1].inner.value_matchers, fed[1])

\* C6: the output is an order-preserving subsequence of the input: every
\* output item is the input item of its position, unchanged, and the
\* positions strictly increase (no item twice, none out of order).
C6_OutputIsSubsequence ==
    /\ \A j \in 1..Len(Output) :
          /\ Output[j].idx \in 1..Len(fed)
          /\ Output[j].val = fed[Output[j].idx]
    /\ \A j, k \in 1..Len(Output) : j < k => Output[j].idx < Output[k].idx

C6_Witness ==
    /\ Len(chain) = 2
    /\ Len(fed) = 3
    /\ Len(Output) = 2
    /\ Output[1].idx = 1
    /\ Output[2].idx = 3
    /\ Output[1].val # Flush
    /\ fed[2] # Flush

\* value starts with the literal characters of prefix
StartsWith(value, prefix) ==
    \E rest \in {SubSeq(value, n + 1, Len(value)) : n \in 0..Len(value)} :
        value = prefix \o rest

\* the regex matches value from its start (to its end too, when anchored)
MatchesFromStart(regex, value) ==
    IF Anchored(regex) THEN value = Literal(regex) ELSE StartsWith(value, regex)

IsRegexCase ==
    /\ Handled
    /\ chain[1].type = "ValueMatchesRegexFilter"
    /\ fed[1] # Flush
    /\ single_value(chain[1].regex_matcher.value_provider, fed[1]) # ResolutionError

SubjectOf(m, record) == single_value(m.value_provider, ProviderContext(record))

\* C7: should_include is false exactly on a match from the start when
\* include is set and true exactly on a match when it is not, so the filter
\* emits the record iff (include and match) or (not include and no match).
C7_RegexIncludeExclude ==
    IsRegexCase =>
        LET m == chain[1].regex_matcher
            matches ==
                MatchesFromStart(m.regex, Normalize(SubjectOf(m, fed[1]), m.normalization))
            emit == (m.include /\ matches) \/ (~m.include /\ ~matches)
        IN  /\ should_include(m, ProviderContext(fed[1])) =
                  Return(IF m.include THEN ~matches ELSE matches)
            /\ Output = IF emit THEN <<Tagged(1, fed[1])>> ELSE <<>>
            /\ status = "running"

\* a match that is not a full match: the value is longer than the regex
C7_Witness ==
    /\ IsRegexCase
    /\ chain[1].regex_matcher.include
    /\ chain[1].regex_matcher.regex = <<"a">>
    /\ chain[1].regex_matcher.normalization = "lower"
    /\ SubjectOf(chain[1].regex_matcher, fed[1]) = <<"A", "B">>
    /\ Output = <<Tagged(1, fed[1])>>

\* the matchers of the filter under test
MatchersUnderTest ==
    IF chain[1].type = "ValuesMatchPossibilitiesFilter" THEN chain[1].value_matchers
    ELSE IF chain[1].type = "ExcludeWhenValuesMatchPossibilities"
    THEN chain[1].inner.value_matchers
    ELSE <<>>

\* possibility j of m is compared with the subject, and the two are equal
\* after normalization
EqualAfterNormalization(m, record, j) ==
    /\ SubjectOf(m, record) # ResolutionError
    /\ \A k \in 1..j :
          single_value(m.possibilities[k], ProviderContext(record)) # ResolutionError
    /\ Normalize(SubjectOf(m, record), m.normalization) =
          Normalize(single_value(m.possibilities[j], ProviderContext(record)),
                    m.normalization)

\* ValueMatcher: a possibility equal to the subject after normalization is a match
ValueMatcherIsSymmetric ==
    (Handled /\ fed[1] # Flush) =>
        \A i \in 1..Len(MatchersUnderTest) :
            LET m == MatchersUnderTest[i]
            IN  \A j \in 1..Len(m.possibilities) :
                    EqualAfterNormalization(m, fed[1], j) =>
                        does_match(m, ProviderContext(fed[1])) = Return(TRUE)

\* C8 as claimed: the normalization is applied to both operands of every
\* comparison, so operands equal after normalization compare as a match, in
\* ValueMatcher.does_match and in RegexMatcher.should_include alike.
C8_NormalizationOnBothOperands ==
    /\ ValueMatcherIsSymmetric
    /\ IsRegexCase =>
          LET m == chain[1].regex_matcher
          IN  Normalize(SubjectOf(m, fed[1]), m.normalization) =
                    Normalize(m.regex, m.normalization)
                 => should_include(m, ProviderContext(fed[1])) = Return(~m.include)

\* C8 as amended: ValueMatcher.does_match normalizes the subject and each
\* possibility alike; RegexMatcher.should_include normalizes the subject
\* only, and matches it against the regex as configured.
C8_NormalizationValueMatcherOnly ==
    /\ ValueMatcherIsSymmetric
    /\ IsRegexCase =>
          LET m == chain[1].regex_matcher
          IN  /\ Normalize(SubjectOf(m, fed[1]), m.normalization) = m.regex
                    => should_include(m, ProviderContext(fed[1])) = Return(~m.include)
              /\ (m.normalization = "lower" /\ Lower(m.regex) # m.regex)
                    => should_include(m, ProviderContext(fed[1])) = Return(m.include)

\* a subject and a possibility that differ as resolved and agree once lowercased
C8_Witness ==
    /\ Handled
    /\ fed[1] # Flush
    /\ chain[1].type = "ValuesMatchPossibilitiesFilter"
    /\ Len(chain[1].value_matchers) = 1
    /\ chain[1].value_matchers[1].normalization = "lower"
    /\ chain[1].value_matchers[1].possibilities = <<Static(<<"A">>), Field("y")>>
    /\ fed[1].data = [x |-> <<"A", "B">>, y |-> <<"a", "b">>]
    /\ Output = <<Tagged(1, fed[1])>>

IsPrefixOf(s, t) == Len(s) <= Len(t) /\ SubSeq(t, 1, Len(s)) = s

\* a call during which a provider failed to resolve raises: it has no match
\* or non-match verdict, the record is in no later channel, and the stream
\* has ended with that failure
C9_FailureRaises ==
    \A e \in log :
        /\ e.resfail => e.outcome = "raise"
        /\ e.outcome = "raise" =>
              /\ e.resfail
              /\ status = "failed"
              /\ error = [stage |-> e.stage, idx |-> e.idx]
              /\ \A k \in (e.stage + 1)..Len(chans) :
                    \A j \in 1..Len(chans[k]) : chans[k][j].idx # e.idx

\* no step takes back or changes what has been output
C9_OutputKept == [][IsPrefixOf(Output, Output')]_vars

\* C9: a provider that fails to resolve while a filter evaluates a record
\* makes process_record raise for that record: the record is not emitted,
\* there is no match or non-match verdict, and what was output before stays.
C9_ResolutionFailurePropagates == []C9_FailureRaises /\ C9_OutputKept

C9_Witness ==
    /\ status = "failed"
    /\ Len(chain) = 2
    /\ error = [stage |-> 2, idx |-> 3]
    /\ Len(Output) = 2
    /\ \E e \in log : e.resfail /\ e.stage = 2

----------------------------------------------------------------------------
(* Properties of SwitchInterpretation *)

Called == lastCall # <<>>

RootCfg == heap[Root].cfg

\* the normalized switch value of node n for a context
SwitchValue(n, context) ==
    normalize_single_value(heap[n].cfg.switch_on, context, heap[n].cfg.normalization)

\* the calls the root itself made during the last interpret call
RootCalls == SelectSeq(lastCall[1].result.calls, LAMBDA c : c.caller = Root)

CompiledFrom(child, cfg) == child \in 1..Len(heap) /\ heap[child].cfg = cfg

\* the root invoked child once with its own context, nothing else, and gave
\* back what child gave
DispatchedTo(child) ==
    LET got == lastCall[1].result
        own == interpret(child, lastCall[1].context)
    IN  /\ RootCalls = <<Call(Root, child, lastCall[1].context)>>
        /\ got.exc = own.exc
        /\ got.value = own.value
        /\ got.ret = own.ret

\* C1: a switch value that is a case key dispatches to the interpretation
\* compiled from that case, and only to it; any other value dispatches to the
\* default when one is configured.
C1_Dispatch ==
    LET v == SwitchValue(Root, lastCall[1].context)
    IN  (Called /\ v # ResolutionError) =>
            IF v \in DOMAIN RootCfg.cases
            THEN /\ CompiledFrom(heap[Root].interpretations[v], RootCfg.cases[v])
                 /\ DispatchedTo(heap[Root].interpretations[v])
                 /\ heap[Root].default # heap[Root].interpretations[v]
            ELSE Truthy(RootCfg.default) =>
                    /\ CompiledFrom(heap[Root].default, RootCfg.default)
                    /\ DispatchedTo(heap[Root].default)

\* the value "A" is lowercased to the key "a"; the key "A" and the default
\* are passed over
C1_Witness ==
    /\ Called
    /\ DOMAIN RootCfg.cases = {<<"A">>, <<"a">>}
    /\ RootCfg.cases[<<"A">>] # RootCfg.cases[<<"a">>]
    /\ Truthy(RootCfg.default)
    /\ RootCfg.normalization = "lower"
    /\ lastCall[1].context.data.x = <<"A">>
    /\ lastCall[1].result.exc = "none"
    /\ lastCall[1].result.ret.by = heap[Root].interpretations[<<"a">>]

\* node n has neither a case for the context's switch value nor a default
Unhandled(n, context) ==
    /\ heap[n].kind = "switch"
    /\ SwitchValue(n, context) # ResolutionError
    /\ SwitchValue(n, context) \notin DOMAIN heap[n].cfg.cases
    /\ ~Truthy(heap[n].cfg.default)

\* C2: with no case for the switch value and no default, interpret raises
\* the unhandled-branch error carrying the value and invokes no child; raised
\* by a switch further down, the error comes out of the root's call as well.
C2_UnhandledBranch ==
    Called =>
        LET got == lastCall[1].result
            context == lastCall[1].context
        IN  /\ Unhandled(Root, context) =>
                  /\ got.exc = "UnhandledBranchError"
                  /\ got.value = SwitchValue(Root, context)
                  /\ got.calls = <<>>
                  /\ got.ret = NoOutput
            /\ \A i \in 1..Len(got.calls) :
                  Unhandled(got.calls[i].callee, context) =>
                      /\ got.exc = "UnhandledBranchError"
                      /\ got.value = SwitchValue(got.calls[i].callee, context)
                      /\ got.ret = NoOutput
                      /\ i = Len(got.calls)

\* the error carries the lowercased value, which is not the key "A"
C2_Witness ==
    /\ Called
    /\ DOMAIN RootCfg.cases = {<<"A">>}
    /\ RootCfg.default = EmptyCfg
    /\ RootCfg.normalization = "lower"
    /\ lastCall[1].context.data.x = <<"A">>
    /\ lastCall[1].result.exc = "UnhandledBranchError"
    /\ lastCall[1].result.value = <<"a">>

Range(seq) == {seq[i] : i \in 1..Len(seq)}

SwitchNodes == {n \in 1..Len(heap) : heap[n].kind = "switch"}

Children(n) ==
    {heap[n].interpretations[k] : k \in DOMAIN heap[n].interpretations}
    \cup (IF heap[n].default # None THEN {heap[n].default} ELSE {})

\* every case and the default, when configured, was compiled into a child
\* of its own
OwnChildren(n) ==
    /\ DOMAIN heap[n].interpretations = DOMAIN heap[n].cfg.cases
    /\ \A k \in DOMAIN heap[n].interpretations :
          /\ CompiledFrom(heap[n].interpretations[k], heap[n].cfg.cases[k])
          /\ heap[n].interpretations[k] # heap[n].default
          /\ \A k2 \in DOMAIN heap[n].interpretations :
                k # k2 => heap[n].interpretations[k] # heap[n].interpretations[k2]
    /\ heap[n].default # None <=> Truthy(heap[n].cfg.default)
    /\ heap[n].default # None => CompiledFrom(heap[n].default, heap[n].cfg.default)
    /\ \A n2 \in SwitchNodes : n # n2 => Children(n) \cap Children(n2) = {}

\* all_subordinate_components yields each child once and evaluates none
YieldsChildrenOnce(n) ==
    LET sub == all_subordinate_components(n)
    IN  /\ Range(sub.yielded) = Children(n)
        /\ Len(sub.yielded) = Cardinality(Children(n))
        /\ Len(sub.yielded) = Cardinality(DOMAIN heap[n].cfg.cases)
                              + (IF Truthy(heap[n].cfg.default) THEN 1 ELSE 0)
        /\ sub.calls = <<>>

\* C10: every switch has one child of its own per case, and one for its
\* default iff configured; all_subordinate_components yields exactly these,
\* once each; the walk through all_subordinate_components visits no node
\* twice, calls no interpret, takes at most one step per node and has
\* visited every node when it ends.
C10_WalkVisitsEachNodeOnce ==
    /\ \A n \in SwitchNodes : OwnChildren(n) /\ YieldsChildrenOnce(n)
    /\ \A i, j \in 1..Len(visited) : i # j => visited[i] # visited[j]
    /\ Len(visited) + Len(stack) <= Len(heap)
    /\ evaluated = <<>>
    /\ walk = "walking" => stack # <<>>
    /\ walk = "done" => stack = <<>> /\ Range(visited) = 1..Len(heap)

\* a finished walk over a root with three cases, two of them switches, and
\* a default
C10_Witness ==
    /\ walk = "done"
    /\ DOMAIN RootCfg.cases = CaseKeys
    /\ Truthy(RootCfg.default)
    /\ Cardinality(SwitchNodes) = 3
    /\ Len(visited) = 7

----------------------------------------------------------------------------
(* PipelineDefinition (nodestream/project/pipeline_definition.py).         *)
(* A Path is the sequence of its parts, a path string the characters of    *)
(* the parts joined by "/".  Annotations are sets of <<key, value>> pairs. *)

\* str(path): the parts joined by "/"
RECURSIVE StrOfPath(_)
StrOfPath(parts) ==
    IF parts = <<>> THEN <<".">>
    ELSE IF Len(parts) = 1 THEN parts[1]
    ELSE parts[1] \o <<"/">> \o StrOfPath(Tail(parts))

\* the parts of a path string from character i on, part being the
\* characters of the part read so far; empty parts are dropped
RECURSIVE SplitPath(_, _, _)
SplitPath(str, i, part) ==
    IF i > Len(str) THEN (IF part = <<>> THEN <<>> ELSE <<part>>)
    ELSE IF str[i] = "/"
    THEN (IF part = <<>> THEN <<>> ELSE <<part>>) \o SplitPath(str, i + 1, <<>>)
    ELSE SplitPath(str, i + 1, Append(part, str[i]))

\* Path(str)
PathOfStr(str) == SelectSeq(SplitPath(str, 1, <<>>), LAMBDA part : part # <<".">>)

\* the positions of the dots that start a suffix: not the first character
\* of the name and not the last
SuffixDots(name) == {i \in 2..(Len(name) - 1) : name[i] = "."}

\* path.stem: the final part without its last suffix
Stem(parts) ==
    LET name == parts[Len(parts)]
    IN  IF SuffixDots(name) = {} THEN name
        ELSE SubSeq(name, 1, (CHOOSE i \in SuffixDots(name) :
                                 \A j \in SuffixDots(name) : j <= i) - 1)

get_default_name(file_path) == Stem(file_path)

PipelineDefinition(name, file_path, targets, exclude_inherited_targets, annotations) ==
    [name |-> name,
     file_path |-> file_path,
     targets |-> targets,
     exclude_inherited_targets |-> exclude_inherited_targets,
     annotations |-> annotations]

\* file data that is a mapping: the keys it has, and their values
DictData(has, path, name, exclude_inherited_targets, annotations, targets) ==
    [kind |-> "dict", has |-> has, path |-> path, name |-> name,
     exclude_inherited_targets |-> exclude_inherited_targets,
     annotations |-> annotations, targets |-> targets]

\* file data that is a string
StrData(path) == [kind |-> "str", path |-> path]

\* {**parent_annotations, **annotations}
MergeAnnotations(parent_annotations, annotations) ==
    annotations \cup
        {a \in parent_annotations : \A b \in annotations : b[1] # a[1]}

\* data.pop(key, default)
Pop(data, key, default) == IF key \in data.has THEN data[key] ELSE default

from_file_data(given, parent_annotations) ==
    LET data == IF given.kind = "str"
                THEN DictData({"path"}, given.path, <<>>, FALSE, {}, {})
                ELSE given
        file_path == PathOfStr(data.path)
        name == Pop(data, "name", get_default_name(file_path))
        exclude_targets == Pop(data, "exclude_inherited_targets", FALSE)
        annotations == Pop(data, "annotations", {})
        targets == Pop(data, "targets", {})
    IN  PipelineDefinition(name, file_path, targets, exclude_targets,
                           MergeAnnotations(parent_annotations, annotations))

to_file_data(self, verbose) ==
    LET using_default_name == self.name = Stem(self.file_path)
    IN  IF using_default_name /\ self.annotations = {} /\ ~verbose
        THEN StrData(StrOfPath(self.file_path))
        ELSE DictData(
                {"path"}
                    \cup (IF ~using_default_name \/ verbose THEN {"name"} ELSE {})
                    \cup (IF self.annotations # {} \/ verbose THEN {"annotations"} ELSE {})
                    \cup (IF self.targets # {} \/ verbose THEN {"targets"} ELSE {}),
                StrOfPath(self.file_path),
                IF ~using_default_name \/ verbose THEN self.name ELSE <<>>,
                FALSE,
                IF self.annotations # {} \/ verbose THEN self.annotations ELSE {},
                IF self.targets # {} \/ verbose THEN self.targets ELSE {})

PipelineNames == {<<"p">>, <<"q">>, <<".", "p">>}

FileNames == {<<"p", ".", "y">>, <<"q", ".", "t", ".", "y">>, <<"p">>, <<".", "p">>}

Directories == {<<>>, << <<"d">> >>}

FilePaths == {dir \o <<file>> : dir \in Directories, file \in FileNames}

TargetSets == SUBSET {"t", "u"}

AnnotationSets == {{}, {<<"k", "v">>}, {<<"k", "w">>, <<"j", "v">>}}

ParentAnnotations == {{}, {<<"k", "v">>, <<"i", "v">>}}

PipelineDefinitions ==
    {PipelineDefinition(n, fp, ts, ex, an) :
        n \in PipelineNames, fp \in FilePaths, ts \in TargetSets,
        ex \in BOOLEAN, an \in AnnotationSets}

InitDefinition ==
    /\ NoPipeline
    /\ NoInterpretations
    /\ defn \in {<<d>> : d \in PipelineDefinitions}
    /\ fileData = <<>>
    /\ loaded = <<>>

\* defn.to_file_data(verbose)
ToFileData(verbose) ==
    /\ fileData' = <<[verbose |-> verbose, data |-> to_file_data(defn[1], verbose)]>>
    /\ loaded' = <<>>
    /\ UNCHANGED defn
    /\ UNCHANGED <<fvars, svars>>

\* PipelineDefinition.from_file_data(data, parent_annotations) on what
\* to_file_data returned
FromFileData(parent_annotations) ==
    /\ fileData # <<>>
    /\ loaded' = <<[parent_annotations |-> parent_annotations,
                    definition |-> from_file_data(fileData[1].data, parent_annotations)]>>
    /\ UNCHANGED <<defn, fileData>>
    /\ UNCHANGED <<fvars, svars>>

NextDefinition ==
    \/ \E verbose \in BOOLEAN : ToFileData(verbose)
    \/ \E parent_annotations \in ParentAnnotations : FromFileData(parent_annotations)

SpecDefinition == InitDefinition /\ [][NextDefinition]_vars

----------------------------------------------------------------------------
(* Properties of PipelineDefinition *)

\* a definition was written with to_file_data and read back with
\* from_file_data, with no parent annotations
ReadBack == loaded # <<>> /\ loaded[1].parent_annotations = {}

SameButTargets(a, b) ==
    /\ a.name = b.name
    /\ a.file_path = b.file_path
    /\ a.annotations = b.annotations

\* C11: from_file_data(to_file_data(d, verbose), {}) has the name, the
\* file_path, the targets and the annotations of d, for either verbose.
C11_RoundTrip ==
    ReadBack =>
        /\ SameButTargets(loaded[1].definition, defn[1])
        /\ loaded[1].definition.targets = defn[1].targets

====
